---------------------------- MODULE Spec2Model ----------------------------
(***************************************************************************)
(* Weather ingestion job: validate_config -> get_current_weather ->        *)
(* extract_weather_information_from_json -> save_to_db (client-1), and the *)
(* dlt variant weather_resource / pipeline.run (client-2-dlthub).          *)
(*                                                                         *)
(* A Python value is a record of one field, named by its type:             *)
(*   None, str, int, float, bool, dict (a function on its keys), list (a   *)
(*   sequence).  An int n is held as the pair <<n \div 86400, n % 86400>>  *)
(*   so that epochs beyond year 9999 stay inside TLC's 32-bit integers.    *)
(* The result of evaluating an expression is [exc |-> e, val |-> v], with  *)
(* exc = "none" when it returns and the exception's class otherwise.       *)
(***************************************************************************)
EXTENDS Integers, Sequences, FiniteSets, TLC

VARIABLES
    variant,                  \* which job runs: "client-1" or "client-2"
    pc,                       \* position of the run
    env,                      \* the process environment (os.getenv)
    LATITUDE, LONGITUDE, OPEN_WEATHER_MAP_API_KEY,   \* module globals
    args,                     \* arguments of a direct call of one function
    ret,                      \* what that call returned or raised
    validated,                \* what validate_config returned in main()
    response,                 \* what the HTTP request produced
    data,                     \* get_current_weather's return value
    weather_information,      \* the record built from data
    saved,                    \* what save_to_db / the pipeline load returned
    conn,                     \* the database connection: "none", "open", "closed"
    txn,                      \* rows inserted in the open transaction
    table,                    \* committed rows of weather_metrics / weather_report
    pipeline,                 \* the dlt pipeline object: "none", "created", "ran"
    log,                      \* logging.error / logging.info messages, in order
    httpCalls,                \* requests.get calls issued
    extractCalls,             \* normalizer runs started
    sinkCalls,                \* records handed to the sink writer
    connects,                 \* psycopg.connect calls
    crashed                   \* where an uncaught exception left the run, or "no"

vars == <<variant, pc, env, LATITUDE, LONGITUDE, OPEN_WEATHER_MAP_API_KEY, args,
          ret, validated, response, data, weather_information, saved, conn, txn,
          table, pipeline, log, httpCalls, extractCalls, sinkCalls, connects,
          crashed>>

-----------------------------------------------------------------------------
(* Python values *)

None == [None |-> ""]
PyStr(s) == [str |-> s]
PyInt(d, s) == [int |-> <<d, s>>]
PyFloat(lit) == [float |-> lit]
PyDict(f) == [dict |-> f]
PyList(q) == [list |-> q]
PyBool(b) == [bool |-> b]

\* type(x)
TypeOf(x) == CHOOSE k \in DOMAIN x : TRUE

\* a response body that is not JSON, and the state before any request
NotJson == [notjson |-> ""]
NoResponse == [kind |-> "none", status |-> 0, body |-> None]

Ok(v) == [exc |-> "none", val |-> v]
Raise(e) == [exc |-> e, val |-> None]

\* bool(x): what `if x`, `not x` and all([...]) test
Truthy(x) ==
    CASE TypeOf(x) = "None" -> FALSE
      [] TypeOf(x) = "str" -> x.str # ""
      [] TypeOf(x) = "int" -> x.int # <<0, 0>>
      [] TypeOf(x) = "float" -> x.float # "0.0"
      [] TypeOf(x) = "dict" -> DOMAIN x.dict # {}
      [] TypeOf(x) = "list" -> Len(x.list) > 0
      [] TypeOf(x) = "bool" -> x.bool

\* x[k] for a string key k
GetItem(x, k) ==
    CASE TypeOf(x) = "dict" ->
            IF k \in DOMAIN x.dict THEN Ok(x.dict[k]) ELSE Raise("KeyError")
      [] OTHER -> Raise("TypeError")

\* x[0]
GetFirst(x) ==
    CASE TypeOf(x) = "dict" -> Raise("KeyError")
      [] TypeOf(x) = "list" ->
            IF Len(x.list) > 0 THEN Ok(x.list[1]) ELSE Raise("IndexError")
      [] TypeOf(x) = "str" ->
            IF x.str # "" THEN Ok(PyStr("c")) ELSE Raise("IndexError")
      [] OTHER -> Raise("TypeError")

\* x.get(k, default)
DictGet(x, k, default) ==
    IF TypeOf(x) = "dict"
    THEN Ok(IF k \in DOMAIN x.dict THEN x.dict[k] ELSE default)
    ELSE Raise("AttributeError")

\* evaluate f on r's value unless r already raised
Then(r, f(_)) == IF r.exc = "none" THEN f(r.val) ELSE r

-----------------------------------------------------------------------------
(* datetime: fromtimestamp, + timedelta, strftime *)

IsLeap(y) == y % 4 = 0 /\ (y % 100 # 0 \/ y % 400 = 0)

\* _DAYS_IN_MONTH, with February of a leap year
DaysInMonth(leap, m) ==
    IF m = 2 THEN (IF leap THEN 29 ELSE 28)
    ELSE IF m \in {4, 6, 9, 11} THEN 30 ELSE 31

\* _DAYS_BEFORE_MONTH, with the leap day counted after February
RECURSIVE DaysBeforeMonth(_, _)
DaysBeforeMonth(leap, m) ==
    IF m = 1 THEN 0 ELSE DaysBeforeMonth(leap, m - 1) + DaysInMonth(leap, m - 1)

DaysBeforeYear(y) ==
    (y - 1) * 365 + (y - 1) \div 4 - (y - 1) \div 100 + (y - 1) \div 400

\* date.toordinal(): 0001-01-01 is day 1
Ymd2Ord(y, m, d) == DaysBeforeYear(y) + DaysBeforeMonth(IsLeap(y), m) + d

\* date.fromordinal()
Ord2Ymd(ordinal) ==
    LET n0 == ordinal - 1
        n400 == n0 \div 146097
        r400 == n0 % 146097
        n100 == r400 \div 36524
        r100 == r400 % 36524
        n4 == r100 \div 1461
        r4 == r100 % 1461
        n1 == r4 \div 365
        n == r4 % 365
        year == n400 * 400 + 1 + n100 * 100 + n4 * 4 + n1
        leapyear == n1 = 3 /\ (n4 # 24 \/ n100 = 3)
        guess == (n + 50) \div 32
        month == IF DaysBeforeMonth(leapyear, guess) > n THEN guess - 1 ELSE guess
    IN  IF n1 = 4 \/ n100 = 4
        THEN [year |-> year - 1, month |-> 12, day |-> 31]
        ELSE [year |-> year, month |-> month,
              day |-> n - DaysBeforeMonth(leapyear, month) + 1]

MinOrdinal == Ymd2Ord(1, 1, 1)
MaxOrdinal == Ymd2Ord(9999, 12, 31)
EpochOrdinal == Ymd2Ord(1970, 1, 1)

DateTime(ordinal, secs) ==
    LET ymd == Ord2Ymd(ordinal)
    IN  [year |-> ymd.year, month |-> ymd.month, day |-> ymd.day,
         hour |-> secs \div 3600, minute |-> (secs % 3600) \div 60,
         second |-> secs % 60]

\* datetime.datetime.fromtimestamp(timestamp, datetime.UTC)
FromTimestamp(timestamp) ==
    CASE TypeOf(timestamp) = "int" ->
            LET ordinal == timestamp.int[1] + EpochOrdinal
            IN  IF ordinal < MinOrdinal \/ ordinal > MaxOrdinal
                THEN Raise("ValueError")
                ELSE Ok(DateTime(ordinal, timestamp.int[2]))
      [] TypeOf(timestamp) = "bool" ->
            Ok(DateTime(EpochOrdinal, IF timestamp.bool THEN 1 ELSE 0))
      [] OTHER -> Raise("TypeError")

\* datetime.timedelta(seconds=timezone_offset), normalised to days and seconds
Timedelta(timezone_offset) ==
    CASE TypeOf(timezone_offset) = "int" ->
            Ok([days |-> timezone_offset.int[1], seconds |-> timezone_offset.int[2]])
      [] TypeOf(timezone_offset) = "bool" ->
            Ok([days |-> 0, seconds |-> IF timezone_offset.bool THEN 1 ELSE 0])
      [] OTHER -> Raise("TypeError")

\* utc_time + delta
AddTimedelta(utc_time, delta) ==
    LET secs == utc_time.hour * 3600 + utc_time.minute * 60 + utc_time.second
                + delta.seconds
        days == Ymd2Ord(utc_time.year, utc_time.month, utc_time.day)
                + delta.days + secs \div 86400
    IN  IF 0 < days /\ days <= MaxOrdinal
        THEN Ok(DateTime(days, secs % 86400))
        ELSE Raise("OverflowError")

Pad(n, width) ==
    LET s == ToString(n)
    IN  IF Len(s) >= width THEN s
        ELSE IF Len(s) = width - 1 THEN "0" \o s
        ELSE IF Len(s) = width - 2 THEN "00" \o s
        ELSE "000" \o s

\* local_time.strftime("%Y-%m-%d %H:%M:%S")
Strftime(local_time) ==
    Pad(local_time.year, 4) \o "-" \o Pad(local_time.month, 2) \o "-"
    \o Pad(local_time.day, 2) \o " " \o Pad(local_time.hour, 2) \o ":"
    \o Pad(local_time.minute, 2) \o ":" \o Pad(local_time.second, 2)

-----------------------------------------------------------------------------
(* validate_config *)

ConfigNames == <<"LATITUDE", "LONGITUDE", "API_KEY">>

LogEntry(level, msg, detail) == [level |-> level, msg |-> msg, detail |-> detail]

\* `if not val` of the comprehension that lists the missing names
IsMissing_NoneOnly(val) == val = None
IsMissing(val) == ~Truthy(val)

\* all([lat, lon, api_key])
AllPresent(vals) == \A i \in 1..Len(vals) : Truthy(vals[i])

RECURSIVE MissingFrom(_, _)
MissingFrom(vals, i) ==
    IF i > Len(vals) THEN <<>>
    ELSE (IF IsMissing(vals[i]) THEN <<ConfigNames[i]>> ELSE <<>>)
         \o MissingFrom(vals, i + 1)

\* returns [ret |-> the boolean returned, log |-> what was logged]
validate_config(lat, lon, api_key) ==
    LET vals == <<lat, lon, api_key>>
    IN  IF ~AllPresent(vals)
        THEN [ret |-> FALSE,
              log |-> <<LogEntry("ERROR", "Missing required configuration",
                                 MissingFrom(vals, 1))>>]
        ELSE [ret |-> TRUE, log |-> <<>>]

-----------------------------------------------------------------------------
(* extract_weather_information_from_json *)

Fields == {"weather", "description", "temperature", "humidity", "date"}

\* a try block: the value, the placeholder when the exception is caught,
\* the exception when it is not
Try(r, caught, placeholder) ==
    IF r.exc = "none" THEN r
    ELSE IF r.exc \in caught THEN Ok(PyStr(placeholder))
    ELSE r

\* data["weather"][0][key]
WeatherPath(d, key) ==
    Then(Then(GetItem(d, "weather"), GetFirst), LAMBDA e : GetItem(e, key))

\* data["main"][key]
MainPath(d, key) == Then(GetItem(d, "main"), LAMBDA m : GetItem(m, key))

\* the body of the try block that builds the date
LocalDate(d) ==
    LET timestamp == GetItem(d, "dt")
        timezone_offset == DictGet(d, "timezone", PyInt(0, 0))
    IN  IF timestamp.exc # "none" THEN timestamp
        ELSE IF timezone_offset.exc # "none" THEN timezone_offset
        ELSE LET utc_time == FromTimestamp(timestamp.val)
                 delta == Timedelta(timezone_offset.val)
             IN  IF utc_time.exc # "none" THEN utc_time
                 ELSE IF delta.exc # "none" THEN delta
                 ELSE LET local_time == AddTimedelta(utc_time.val, delta.val)
                      IN  IF local_time.exc # "none" THEN local_time
                          ELSE Ok(PyStr(Strftime(local_time.val)))

WeatherCaught == {"IndexError", "KeyError", "TypeError"}
MainCaught == {"KeyError"}
DateCaught == {"KeyError", "TypeError"}

ExtractField(d, f) ==
    CASE f = "weather" ->
            Try(WeatherPath(d, "main"), WeatherCaught, "No weather data available")
      [] f = "description" ->
            Try(WeatherPath(d, "description"), WeatherCaught, "No description available")
      [] f = "temperature" ->
            Try(MainPath(d, "temp"), MainCaught, "No temperature available")
      [] f = "humidity" ->
            Try(MainPath(d, "humidity"), MainCaught, "No humidity data available")
      [] f = "date" ->
            Try(LocalDate(d), DateCaught, "No date available")

FieldOrder == <<"weather", "description", "temperature", "humidity", "date">>

\* the try blocks in order, from the dictionary initialised to None: the
\* first exception no block catches leaves the function
RECURSIVE ExtractFrom(_, _, _)
ExtractFrom(d, weather_info, i) ==
    IF i > Len(FieldOrder) THEN [exc |-> "none", val |-> weather_info]
    ELSE LET r == ExtractField(d, FieldOrder[i])
         IN  IF r.exc # "none" THEN r
             ELSE ExtractFrom(d, [weather_info EXCEPT ![FieldOrder[i]] = r.val], i + 1)

extract_weather_information_from_json(d) ==
    ExtractFrom(d, [f \in Fields |-> None], 1)

-----------------------------------------------------------------------------
(* inputs *)

MaxWeatherLen == 1

Missing == [missing |-> ""]

Entry(k, x) == IF x = Missing THEN <<>> ELSE (k :> x)

Clouds == PyDict([main |-> PyStr("Clouds"), description |-> PyStr("few clouds")])

WeatherElems ==
    {Clouds, PyDict([main |-> PyStr("Rain")]), PyDict(<<>>), None}

RECURSIVE SeqsUpTo(_, _)
SeqsUpTo(S, n) ==
    IF n = 0 THEN {<<>>}
    ELSE LET shorter == SeqsUpTo(S, n - 1)
         IN  shorter \cup {Append(q, x) : q \in shorter, x \in S}

WeatherValues ==
    {PyList(q) : q \in SeqsUpTo(WeatherElems, MaxWeatherLen)}
    \cup {None, PyStr("Clouds"), PyDict(<<>>), Missing}

MainValues ==
    { PyDict([temp |-> PyFloat("15.5"), humidity |-> PyInt(0, 60)]),
      PyDict([temp |-> PyFloat("15.5")]),
      PyDict([humidity |-> PyInt(0, 60)]),
      PyDict([temp |-> None, humidity |-> PyInt(0, 60)]),
      PyDict(<<>>), None, PyList(<<>>), PyStr("main"), Missing }

\* 1700000000 is <<19675, 80000>>, and 1700000000000 (the same instant in
\* milliseconds) is <<19675925, 80000>>; 9999-12-31 is the last day datetime
\* holds
DtValues ==
    { PyInt(19675, 80000), PyInt(0, 0), PyInt(19782, 86399),
      PyInt(MaxOrdinal - EpochOrdinal, 86399), PyInt(MaxOrdinal - EpochOrdinal + 1, 0),
      PyInt(19675925, 80000),
      PyStr("1700000000"), None, Missing }

TimezoneValues ==
    { PyInt(0, 3600), PyInt(-1, 82800), PyInt(0, 0), PyStr("3600"), None, Missing }

Payload(w, m, dt, tz) ==
    PyDict(Entry("weather", w) @@ Entry("main", m) @@ Entry("dt", dt)
           @@ Entry("timezone", tz))

\* JSON documents
Payloads ==
    { Payload(w, m, dt, tz) :
        w \in WeatherValues, m \in MainValues, dt \in DtValues, tz \in TimezoneValues }

\* JSON bodies that are no document
NonDocuments == { None, PyList(<<>>), PyList(<<Clouds>>), PyStr("weather"), PyInt(0, 1) }

SamplePayload ==
    Payload(PyList(<<Clouds>>),
            PyDict([temp |-> PyFloat("15.5"), humidity |-> PyInt(0, 60)]),
            PyInt(19675, 80000), PyInt(0, 3600))

ConfigValues == {None, PyStr(""), PyStr(" "), PyStr("48.85"), PyStr("key")}

-----------------------------------------------------------------------------
(* direct calls of validate_config and of the normalizer *)

Idle ==
    /\ variant = "client-1"
    /\ env = <<>>
    /\ LATITUDE = None /\ LONGITUDE = None /\ OPEN_WEATHER_MAP_API_KEY = None
    /\ ret = None
    /\ validated = "unset"
    /\ response = NoResponse
    /\ data = None
    /\ weather_information = None
    /\ saved = "unset"
    /\ conn = "none"
    /\ txn = <<>>
    /\ table = <<>>
    /\ pipeline = "none"
    /\ log = <<>>
    /\ httpCalls = 0 /\ extractCalls = 0 /\ sinkCalls = 0 /\ connects = 0
    /\ crashed = "no"

InitValidate ==
    /\ Idle
    /\ pc = "call"
    /\ args \in [lat : ConfigValues, lon : ConfigValues, api_key : ConfigValues]

CallValidateConfig ==
    /\ pc = "call"
    /\ LET r == validate_config(args.lat, args.lon, args.api_key)
       IN  /\ ret' = PyBool(r.ret)
           /\ log' = log \o r.log
    /\ pc' = "returned"
    /\ UNCHANGED <<variant, env, LATITUDE, LONGITUDE, OPEN_WEATHER_MAP_API_KEY, args,
                   validated, response, data, weather_information, saved, conn, txn,
                   table, pipeline, httpCalls, extractCalls, sinkCalls, connects,
                   crashed>>

NextValidate == CallValidateConfig

SpecValidate == InitValidate /\ [][NextValidate]_vars

InitExtract ==
    /\ Idle
    /\ pc = "call"
    /\ args \in [data : Payloads]

CallExtract ==
    /\ pc = "call"
    /\ ret' = extract_weather_information_from_json(args.data)
    /\ extractCalls' = extractCalls + 1
    /\ pc' = "returned"
    /\ UNCHANGED <<variant, env, LATITUDE, LONGITUDE, OPEN_WEATHER_MAP_API_KEY, args,
                   validated, response, data, weather_information, saved, conn, txn,
                   table, pipeline, log, httpCalls, sinkCalls, connects, crashed>>

NextExtract == CallExtract

SpecExtract == InitExtract /\ [][NextExtract]_vars

-----------------------------------------------------------------------------
(* get_current_weather, and the request of weather_resource *)


TransportError == [kind |-> "error", status |-> 0, body |-> None]
HttpResponse(status, body) == [kind |-> "response", status |-> status, body |-> body]

ErrorBody == PyDict([cod |-> PyInt(0, 401), message |-> PyStr("Invalid API key")])

Responses ==
    {TransportError}
    \cup {HttpResponse(200, b) : b \in Payloads \cup NonDocuments \cup {NotJson}}
    \cup {HttpResponse(st, ErrorBody) : st \in {401, 500}}

\* response.raise_for_status() raises HTTPError
RaiseForStatus_Never(status) == FALSE
RaiseForStatus(status) == status >= 400 /\ status < 600

\* requests.get(...); response.raise_for_status(); response.json()
Request(resp) ==
    IF resp.kind = "error" THEN Raise("ConnectionError")
    ELSE IF RaiseForStatus(resp.status) THEN Raise("HTTPError")
    ELSE IF resp.body = NotJson THEN Raise("JSONDecodeError")
    ELSE Ok(resp.body)

\* the subclasses of requests.exceptions.RequestException
RequestException == {"ConnectionError", "HTTPError", "JSONDecodeError"}

\* returns [val |-> the value returned, log |-> what was logged]
get_current_weather(resp) ==
    LET r == Request(resp)
    IN  IF r.exc = "none"
        THEN [val |-> r.val,
              log |-> <<LogEntry("INFO", "Fetching the weather information", <<>>),
                        LogEntry("INFO", "Succesfuly fetched weather information", <<>>)>>]
        ELSE [val |-> None,
              log |-> <<LogEntry("INFO", "Fetching the weather information", <<>>),
                        LogEntry("ERROR", "Error fetching the weather data", <<r.exc>>)>>]

-----------------------------------------------------------------------------
(* save_to_db *)

Columns == <<"weather", "description", "temperature", "humidity", "observed_at">>

\* the parameter tuple of cur.execute
Params_Swapped(info) ==
    <<info.weather, info.description, info.humidity, info.temperature, info.date>>
Params(info) ==
    <<info.weather, info.description, info.temperature, info.humidity, info.date>>

\* INSERT INTO weather_metrics (...) VALUES (%s, %s, %s, %s, %s)
InsertRow(info) ==
    [c \in {Columns[i] : i \in 1..Len(Columns)} |->
        Params(info)[CHOOSE i \in 1..Len(Columns) : Columns[i] = c]]

-----------------------------------------------------------------------------
(* weather_resource (client-2) *)

PyDatetime(r) == IF r.exc = "none" THEN Ok([datetime |-> r.val]) ELSE r

ResourceColumns == <<"weather", "description", "temperature", "humidity", "observed_at">>

ResourceField(d, c) ==
    CASE c = "weather" -> WeatherPath(d, "main")
      [] c = "description" -> WeatherPath(d, "description")
      [] c = "temperature" -> MainPath(d, "temp")
      [] c = "humidity" -> MainPath(d, "humidity")
      [] c = "observed_at" -> PyDatetime(Then(GetItem(d, "dt"), FromTimestamp))

\* the dictionary of the yield statement, its values evaluated in order
RECURSIVE ResourceFrom(_, _, _)
ResourceFrom(d, item, i) ==
    IF i > Len(ResourceColumns) THEN [exc |-> "none", val |-> item]
    ELSE LET r == ResourceField(d, ResourceColumns[i])
         IN  IF r.exc # "none" THEN r
             ELSE ResourceFrom(d, (ResourceColumns[i] :> r.val) @@ item, i + 1)

ResourceItem(d) == ResourceFrom(d, <<>>, 1)

ResourceCaught == {"KeyError", "IndexError", "TypeError"}

-----------------------------------------------------------------------------
(* a run of the job: module load, then main() *)

Variants == {"client-1", "client-2"}

EnvNames == {"LATITUDE", "LONGITUDE", "OPEN_WEATHER_MAP_API_KEY"}

\* None is an unset variable
EnvValues == {None, PyStr(""), PyStr(" "), PyStr("48.85")}

\* str.strip() on the strings of EnvValues
Strip(x) == IF x = PyStr(" ") THEN PyStr("") ELSE x

\* os.getenv(name) and os.getenv(name, "")
Getenv(name, default) == IF env[name] = None THEN default ELSE env[name]

Init ==
    /\ variant \in Variants
    /\ pc = "import"
    /\ env \in [EnvNames -> EnvValues]
    /\ LATITUDE = None /\ LONGITUDE = None /\ OPEN_WEATHER_MAP_API_KEY = None
    /\ args = <<>>
    /\ ret = None
    /\ validated = "unset"
    /\ response = NoResponse
    /\ data = None
    /\ weather_information = None
    /\ saved = "unset"
    /\ conn = "none"
    /\ txn = <<>>
    /\ table = <<>>
    /\ pipeline = "none"
    /\ log = <<>>
    /\ httpCalls = 0 /\ extractCalls = 0 /\ sinkCalls = 0 /\ connects = 0
    /\ crashed = "no"

\* the module-level assignments: client-1 strips os.getenv(name), which is
\* None for an unset variable; client-2 gives "" as the default
LoadConfig ==
    /\ pc = "import"
    /\ IF variant = "client-1" /\ \E n \in EnvNames : env[n] = None
       THEN /\ pc' = "crashed"
            /\ crashed' = "import"
            /\ UNCHANGED <<LATITUDE, LONGITUDE, OPEN_WEATHER_MAP_API_KEY>>
       ELSE /\ OPEN_WEATHER_MAP_API_KEY' =
                    Strip(Getenv("OPEN_WEATHER_MAP_API_KEY", PyStr("")))
            /\ LATITUDE' = Strip(Getenv("LATITUDE", PyStr("")))
            /\ LONGITUDE' = Strip(Getenv("LONGITUDE", PyStr("")))
            /\ pc' = "main"
            /\ UNCHANGED crashed
    /\ UNCHANGED <<variant, env, args, ret, validated, response, data,
                   weather_information, saved, conn, txn, table, pipeline, log,
                   httpCalls, extractCalls, sinkCalls, connects>>

\* where main() goes after validate_config
AfterValidate_Ignored(ok) == IF variant = "client-1" THEN "fetch" ELSE "pipeline"
AfterValidate(ok) ==
    IF ~ok THEN "done"
    ELSE IF variant = "client-1" THEN "fetch" ELSE "pipeline"

\* main(): if not validate_config(...): return
Validate ==
    /\ pc = "main"
    /\ LET r == validate_config(LATITUDE, LONGITUDE, OPEN_WEATHER_MAP_API_KEY)
       IN  /\ validated' = IF r.ret THEN "True" ELSE "False"
           /\ log' = log \o r.log \o
                     (IF ~r.ret /\ variant = "client-1"
                      THEN <<LogEntry("ERROR", "Configuration validation failed. Exiting.", <<>>)>>
                      ELSE <<>>)
           /\ pc' = AfterValidate(r.ret)
    /\ UNCHANGED <<variant, env, LATITUDE, LONGITUDE, OPEN_WEATHER_MAP_API_KEY, args,
                   ret, response, data, weather_information, saved, conn, txn, table,
                   pipeline, httpCalls, extractCalls, sinkCalls, connects, crashed>>

\* client-1: data = get_current_weather(...)
GetCurrentWeather ==
    /\ pc = "fetch"
    /\ \E resp \in Responses :
          LET r == get_current_weather(resp)
          IN  /\ response' = resp
              /\ data' = r.val
              /\ log' = log \o r.log
    /\ httpCalls' = httpCalls + 1
    /\ pc' = "check"
    /\ UNCHANGED <<variant, env, LATITUDE, LONGITUDE, OPEN_WEATHER_MAP_API_KEY, args,
                   ret, validated, weather_information, saved, conn, txn, table,
                   pipeline, extractCalls, sinkCalls, connects, crashed>>

\* where main() goes after `if data:`
AfterCheck_Retry(d) == IF Truthy(d) THEN "extract" ELSE "fetch"
AfterCheck(d) == IF Truthy(d) THEN "extract" ELSE "finish"

\* client-1: if data:
CheckData ==
    /\ pc = "check"
    /\ pc' = AfterCheck(data)
    /\ UNCHANGED <<variant, env, LATITUDE, LONGITUDE, OPEN_WEATHER_MAP_API_KEY, args,
                   ret, validated, response, data, weather_information, saved, conn,
                   txn, table, pipeline, log, httpCalls, extractCalls, sinkCalls,
                   connects, crashed>>

\* client-1: weather_information = extract_weather_information_from_json(data)
Extract ==
    /\ pc = "extract"
    /\ extractCalls' = extractCalls + 1
    /\ LET r == extract_weather_information_from_json(data)
       IN  IF r.exc = "none"
           THEN /\ weather_information' = r.val
                /\ pc' = "save"
                /\ UNCHANGED crashed
           ELSE /\ pc' = "crashed"
                /\ crashed' = "extract_weather_information_from_json"
                /\ UNCHANGED weather_information
    /\ UNCHANGED <<variant, env, LATITUDE, LONGITUDE, OPEN_WEATHER_MAP_API_KEY, args,
                   ret, validated, response, data, saved, conn, txn, table, pipeline,
                   log, httpCalls, sinkCalls, connects>>

\* save_to_db: with psycopg.connect(conn_str) as conn
Connect ==
    /\ pc = "save"
    /\ sinkCalls' = sinkCalls + 1
    /\ connects' = connects + 1
    /\ \/ /\ conn' = "open"
          /\ pc' = "execute"
          /\ UNCHANGED <<saved, log>>
       \/ /\ saved' = "False"
          /\ log' = Append(log, LogEntry("ERROR", "Database insertion failed", <<"connect">>))
          /\ pc' = "finish"
          /\ UNCHANGED conn
    /\ UNCHANGED <<variant, env, LATITUDE, LONGITUDE, OPEN_WEATHER_MAP_API_KEY, args,
                   ret, validated, response, data, weather_information, txn, table,
                   pipeline, httpCalls, extractCalls, crashed>>

\* save_to_db: cur.execute(query, (...)); a psycopg.Error leaves the with
\* block, which rolls back and closes the connection
Execute ==
    /\ pc = "execute"
    /\ \/ /\ txn' = Append(txn, InsertRow(weather_information))
          /\ pc' = "commit"
          /\ UNCHANGED <<conn, saved, log>>
       \/ /\ txn' = <<>>
          /\ conn' = "closed"
          /\ saved' = "False"
          /\ log' = Append(log, LogEntry("ERROR", "Database insertion failed", <<"execute">>))
          /\ pc' = "finish"
    /\ UNCHANGED <<variant, env, LATITUDE, LONGITUDE, OPEN_WEATHER_MAP_API_KEY, args,
                   ret, validated, response, data, weather_information, table,
                   pipeline, httpCalls, extractCalls, sinkCalls, connects, crashed>>

\* save_to_db: the end of the with block commits and closes the connection
Commit ==
    /\ pc = "commit"
    /\ conn' = "closed"
    /\ txn' = <<>>
    /\ \/ /\ table' = table \o txn
          /\ saved' = "True"
          /\ log' = Append(log, LogEntry("INFO", "Successfully ingested data into Postgres.", <<>>))
       \/ /\ saved' = "False"
          /\ log' = Append(log, LogEntry("ERROR", "Database insertion failed", <<"commit">>))
          /\ UNCHANGED table
    /\ pc' = "finish"
    /\ UNCHANGED <<variant, env, LATITUDE, LONGITUDE, OPEN_WEATHER_MAP_API_KEY, args,
                   ret, validated, response, data, weather_information, pipeline,
                   httpCalls, extractCalls, sinkCalls, connects, crashed>>

\* client-2: pipeline = dlt.pipeline(...)
CreatePipeline ==
    /\ pc = "pipeline"
    /\ pipeline' = "created"
    /\ log' = Append(log, LogEntry("INFO", "Starting the dlt pipeline ingestion.", <<>>))
    /\ pc' = "run"
    /\ UNCHANGED <<variant, env, LATITUDE, LONGITUDE, OPEN_WEATHER_MAP_API_KEY, args,
                   ret, validated, response, data, weather_information, saved, conn,
                   txn, table, httpCalls, extractCalls, sinkCalls, connects, crashed>>

\* client-2: pipeline.run starts the generator, which issues the request; a
\* RequestException ends the generator with nothing yielded
ResourceFetch ==
    /\ pc = "run"
    /\ httpCalls' = httpCalls + 1
    /\ \E resp \in Responses :
          LET r == Request(resp)
          IN  /\ response' = resp
              /\ IF r.exc = "none"
                 THEN /\ data' = r.val
                      /\ log' = Append(log, LogEntry("INFO", "Successfully fetched weather information.", <<>>))
                      /\ pc' = "yield"
                 ELSE /\ data' = None
                      /\ log' = Append(log, LogEntry("ERROR", "Error fetching the weather data", <<r.exc>>))
                      /\ pc' = "load"
    /\ UNCHANGED <<variant, env, LATITUDE, LONGITUDE, OPEN_WEATHER_MAP_API_KEY, args,
                   ret, validated, weather_information, saved, conn, txn, table,
                   pipeline, extractCalls, sinkCalls, connects, crashed>>

\* client-2: the yield statement; KeyError, IndexError and TypeError end the
\* generator with nothing yielded, any other exception leaves pipeline.run
\* and is caught by main()
ResourceYield ==
    /\ pc = "yield"
    /\ extractCalls' = extractCalls + 1
    /\ LET r == ResourceItem(data)
       IN  IF r.exc = "none"
           THEN /\ weather_information' = r.val
                /\ sinkCalls' = sinkCalls + 1
                /\ pc' = "load"
                /\ UNCHANGED <<log, saved, pipeline>>
           ELSE IF r.exc \in ResourceCaught
           THEN /\ log' = Append(log, LogEntry("ERROR", "Failed to extract data from API response", <<r.exc>>))
                /\ pc' = "load"
                /\ UNCHANGED <<weather_information, sinkCalls, saved, pipeline>>
           ELSE /\ log' = Append(log, LogEntry("ERROR", "The pipeline failed to run", <<r.exc>>))
                /\ saved' = "False"
                /\ pipeline' = "ran"
                /\ pc' = "finish"
                /\ UNCHANGED <<weather_information, sinkCalls>>
    /\ UNCHANGED <<variant, env, LATITUDE, LONGITUDE, OPEN_WEATHER_MAP_API_KEY, args,
                   ret, validated, response, data, conn, txn, table, httpCalls,
                   connects, crashed>>

\* client-2: pipeline.run loads what the resource yielded into the
\* destination table, or raises, which main() catches
PipelineLoad ==
    /\ pc = "load"
    /\ pipeline' = "ran"
    /\ IF sinkCalls = 0
       THEN /\ log' = Append(log, LogEntry("INFO", "Pipeline run results", <<>>))
            /\ UNCHANGED <<table, saved>>
       ELSE \/ /\ table' = Append(table, weather_information)
               /\ saved' = "True"
               /\ log' = Append(log, LogEntry("INFO", "Pipeline run results", <<>>))
            \/ /\ saved' = "False"
               /\ log' = Append(log, LogEntry("ERROR", "The pipeline failed to run", <<"load">>))
               /\ UNCHANGED table
    /\ pc' = "finish"
    /\ UNCHANGED <<variant, env, LATITUDE, LONGITUDE, OPEN_WEATHER_MAP_API_KEY, args,
                   ret, validated, response, data, weather_information, conn, txn,
                   httpCalls, extractCalls, sinkCalls, connects, crashed>>

\* main(): the duration is logged and main() returns
Finish ==
    /\ pc = "finish"
    /\ log' = Append(log, LogEntry("INFO", "The script took %ss to complete", <<>>))
    /\ pc' = "done"
    /\ UNCHANGED <<variant, env, LATITUDE, LONGITUDE, OPEN_WEATHER_MAP_API_KEY, args,
                   ret, validated, response, data, weather_information, saved, conn,
                   txn, table, pipeline, httpCalls, extractCalls, sinkCalls, connects,
                   crashed>>

Next ==
    \/ LoadConfig
    \/ Validate
    \/ GetCurrentWeather
    \/ CheckData
    \/ Extract
    \/ Connect
    \/ Execute
    \/ Commit
    \/ CreatePipeline
    \/ ResourceFetch
    \/ ResourceYield
    \/ PipelineLoad
    \/ Finish

Spec == Init /\ [][Next]_vars

-----------------------------------------------------------------------------
(* what the properties speak of *)

\* present and non-empty
Present(x) == TypeOf(x) = "str" /\ x.str # ""

Placeholder(f) ==
    CASE f = "weather" -> PyStr("No weather data available")
      [] f = "description" -> PyStr("No description available")
      [] f = "temperature" -> PyStr("No temperature available")
      [] f = "humidity" -> PyStr("No humidity data available")
      [] f = "date" -> PyStr("No date available")

\* the path of each of the four looked-up fields: the top-level key, whether
\* the first element of a list is taken, and the key of the leaf
PathOf(f) ==
    CASE f = "weather" -> [top |-> "weather", first |-> TRUE, leaf |-> "main"]
      [] f = "description" -> [top |-> "weather", first |-> TRUE, leaf |-> "description"]
      [] f = "temperature" -> [top |-> "main", first |-> FALSE, leaf |-> "temp"]
      [] f = "humidity" -> [top |-> "main", first |-> FALSE, leaf |-> "humidity"]

Has(d, k) == TypeOf(d) = "dict" /\ k \in DOMAIN d.dict

\* the mapping that holds the leaf of f's path in d, when the path leads to one
HasLeafMapping(d, f) ==
    /\ Has(d, PathOf(f).top)
    /\ IF PathOf(f).first
       THEN /\ TypeOf(d.dict[PathOf(f).top]) = "list"
            /\ Len(d.dict[PathOf(f).top].list) > 0
            /\ TypeOf(d.dict[PathOf(f).top].list[1]) = "dict"
       ELSE TypeOf(d.dict[PathOf(f).top]) = "dict"

LeafMapping(d, f) ==
    IF PathOf(f).first THEN d.dict[PathOf(f).top].list[1] ELSE d.dict[PathOf(f).top]

Resolves(d, f) == HasLeafMapping(d, f) /\ Has(LeafMapping(d, f), PathOf(f).leaf)

ValueAt(d, f) == LeafMapping(d, f).dict[PathOf(f).leaf]

\* a key on f's path is missing
KeyMissing(d, f) ==
    /\ TypeOf(d) = "dict"
    /\ \/ ~Has(d, PathOf(f).top)
       \/ HasLeafMapping(d, f) /\ ~Has(LeafMapping(d, f), PathOf(f).leaf)

LookedUp == {"weather", "description", "temperature", "humidity"}

\* the civil date of a day of the epoch, counted in 400-year eras from
\* 0000-03-01
CivilFromDays(days) ==
    LET z == days + 719468
        era == z \div 146097
        doe == z % 146097
        yoe == (doe - doe \div 1460 + doe \div 36524 - doe \div 146096) \div 365
        doy == doe - (365 * yoe + yoe \div 4 - yoe \div 100)
        mp == (5 * doy + 2) \div 153
        m == IF mp < 10 THEN mp + 3 ELSE mp - 9
    IN  [year |-> yoe + era * 400 + (IF m <= 2 THEN 1 ELSE 0), month |-> m,
         day |-> doy - (153 * mp + 2) \div 5 + 1]

Digits(n, width) ==
    IF width = 4
    THEN ToString(n \div 1000) \o ToString((n \div 100) % 10)
         \o ToString((n \div 10) % 10) \o ToString(n % 10)
    ELSE ToString(n \div 10) \o ToString(n % 10)

\* YYYY-MM-DD HH:MM:SS of the instant <<days, secs>> of the epoch
Rendering(instant) ==
    LET c == CivilFromDays(instant[1])
        secs == instant[2]
    IN  Digits(c.year, 4) \o "-" \o Digits(c.month, 2) \o "-" \o Digits(c.day, 2)
        \o " " \o Digits(secs \div 3600, 2) \o ":" \o Digits((secs \div 60) % 60, 2)
        \o ":" \o Digits(secs % 60, 2)

\* dt + timezone seconds
Shifted(dt, tz) ==
    <<dt[1] + tz[1] + (dt[2] + tz[2]) \div 86400, (dt[2] + tz[2]) % 86400>>

\* the instants datetime can hold: years 1 to 9999
Representable(instant) ==
    /\ instant[1] >= MinOrdinal - EpochOrdinal
    /\ instant[1] <= MaxOrdinal - EpochOrdinal

OffsetOf(d) == IF Has(d, "timezone") THEN d.dict["timezone"].int ELSE <<0, 0>>

IntegerDate(d) ==
    /\ Has(d, "dt") /\ TypeOf(d.dict["dt"]) = "int"
    /\ Has(d, "timezone") => TypeOf(d.dict["timezone"]) = "int"

\* the payload with its dt removed
WithoutDt(d) == PyDict([k \in DOMAIN d.dict \ {"dt"} |-> d.dict[k]])

FetchFailed ==
    \/ response.kind = "error"
    \/ response.kind = "response" /\ ~(response.status >= 200 /\ response.status < 300)

\* the request returned a parsed JSON document
FetchedDocument ==
    /\ response.kind = "response"
    /\ response.status >= 200 /\ response.status < 300
    /\ TypeOf(response.body) = "dict"

IsRecord(info) == DOMAIN info = Fields

-----------------------------------------------------------------------------
(* properties *)

\* C1: whatever the raw observation, the normalizer returns normally and the
\* record has exactly the five fields, none of them None.
C1_AlwaysFivePopulated ==
    pc = "returned" =>
        /\ ret.exc = "none"
        /\ DOMAIN ret.val = Fields
        /\ \A f \in Fields : ret.val[f] # None

\* C2: each of weather, description, temperature and humidity is the value at
\* its own path when the path resolves and its own placeholder when a key of
\* the path is missing, whatever happens to the other fields.
C2_FieldsIndependent ==
    pc = "returned" =>
        \A f \in LookedUp :
            /\ Resolves(args.data, f) =>
                   ret.exc = "none" /\ ret.val[f] = ValueAt(args.data, f)
            /\ KeyMissing(args.data, f) =>
                   ret.exc = "none" /\ ret.val[f] = Placeholder(f)

\* Where the normalizer returns, each looked-up field is the value at its
\* path or its placeholder.
FieldsIndependentWhereReturned ==
    (pc = "returned" /\ ret.exc = "none") =>
        \A f \in LookedUp :
            /\ Resolves(args.data, f) => ret.val[f] = ValueAt(args.data, f)
            /\ ~Resolves(args.data, f) => ret.val[f] = Placeholder(f)

\* C3: validate_config returns true exactly when the three arguments are
\* present and non-empty; otherwise it returns false and logs exactly the
\* names of the missing ones; it changes nothing else.
C3_ValidateConfig ==
    pc = "returned" =>
        LET vals == <<args.lat, args.lon, args.api_key>>
            missing == {ConfigNames[i] : i \in {j \in 1..3 : ~Present(vals[j])}}
        IN  /\ ret \in {PyBool(TRUE), PyBool(FALSE)}
            /\ ret = PyBool(TRUE) <=> missing = {}
            /\ ret = PyBool(TRUE) => log = <<>>
            /\ ret = PyBool(FALSE) =>
                   /\ Len(log) = 1
                   /\ log[1].level = "ERROR"
                   /\ {log[1].detail[i] : i \in 1..Len(log[1].detail)} = missing
                   /\ Len(log[1].detail) = Cardinality(missing)
            /\ httpCalls = 0 /\ extractCalls = 0 /\ sinkCalls = 0 /\ connects = 0
            /\ conn = "none" /\ pipeline = "none" /\ table = <<>> /\ txn = <<>>
            /\ crashed = "no"

C3_Witness ==
    /\ pc = "returned"
    /\ ret = PyBool(FALSE)
    /\ args.lat = PyStr("") /\ args.lon = None /\ Present(args.api_key)
    /\ log[1].detail = <<"LATITUDE", "LONGITUDE">>

C5_DocumentReachesSink ==
    (pc = "done" /\ validated = "True" /\ FetchedDocument) =>
        /\ extractCalls = 1
        /\ sinkCalls = 1
        /\ IF variant = "client-1"
           THEN IsRecord(weather_information)
           ELSE DOMAIN weather_information = {ResourceColumns[i] : i \in 1..5}

\* C6: when validate_config returns false the run ends with no request, no
\* normalizer run, no connection and no pipeline; and a stage happens only
\* after the stage before it succeeded: validate, fetch, normalize, persist.
C6_StagesInOrder ==
    /\ validated = "False" =>
           /\ pc = "done"
           /\ httpCalls = 0 /\ extractCalls = 0 /\ sinkCalls = 0 /\ connects = 0
           /\ conn = "none" /\ pipeline = "none" /\ table = <<>>
    /\ (httpCalls > 0 \/ pipeline # "none") => validated = "True"
    /\ extractCalls > 0 =>
           /\ httpCalls > 0
           /\ response.kind = "response"
           /\ response.status >= 200 /\ response.status < 300
           /\ response.body # NotJson
           /\ data = response.body
    /\ sinkCalls > 0 =>
           /\ extractCalls > 0
           /\ IsRecord(weather_information) \/ DOMAIN weather_information = {ResourceColumns[i] : i \in 1..5}
    /\ (connects > 0 \/ table # <<>> \/ txn # <<>>) => sinkCalls > 0

C6_Witness ==
    /\ pc = "done"
    /\ validated = "False"
    /\ LATITUDE = PyStr("") /\ Present(LONGITUDE)

\* C7: no failure crashes a run: whichever stage fails, main() ends by
\* returning, never by an uncaught exception.  (The module-level crash of
\* client-1 on an unset variable happens before main() is entered and is
\* left aside.)
C7_MainAlwaysReturns == crashed \in {"no", "import"}

\* C8: for an integer dt and an integer or absent timezone the date is the
\* rendering of the instant dt + timezone; for an absent or malformed dt it
\* is the placeholder and the other four fields are what they are without
\* dt.  Stated of the payloads on whose other four fields the normalizer
\* does not raise.
C8_DateShifted ==
    (/\ pc = "returned"
     /\ TypeOf(args.data) = "dict"
     /\ \A f \in LookedUp : ExtractField(args.data, f).exc = "none") =>
        /\ IntegerDate(args.data) =>
               /\ ret.exc = "none"
               /\ ret.val["date"] =
                      PyStr(Rendering(Shifted(args.data.dict["dt"].int, OffsetOf(args.data))))
        /\ (~Has(args.data, "dt") \/ TypeOf(args.data.dict["dt"]) # "int") =>
               /\ ret.exc = "none"
               /\ ret.val["date"] = Placeholder("date")
               /\ \A f \in LookedUp :
                      ret.val[f] =
                          extract_weather_information_from_json(WithoutDt(args.data)).val[f]

\* Where datetime can hold both dt and dt + timezone, the date is the
\* rendering of dt + timezone.
DateShiftedWhereRepresentable ==
    (/\ pc = "returned"
     /\ TypeOf(args.data) = "dict"
     /\ \A f \in LookedUp : ExtractField(args.data, f).exc = "none"
     /\ IntegerDate(args.data)
     /\ Representable(args.data.dict["dt"].int)
     /\ Representable(Shifted(args.data.dict["dt"].int, OffsetOf(args.data)))) =>
        /\ ret.exc = "none"
        /\ ret.val["date"] =
               PyStr(Rendering(Shifted(args.data.dict["dt"].int, OffsetOf(args.data))))

\* C9: within a run at most one request is issued, at most one record is
\* handed to the sink and at most one row written; nothing is attempted a
\* second time after a failure.
C9_NothingRepeated ==
    /\ httpCalls <= 1
    /\ extractCalls <= 1
    /\ sinkCalls <= 1
    /\ connects <= 1
    /\ Len(txn) <= 1
    /\ Len(table) <= 1

C9_Witness ==
    /\ pc = "done"
    /\ httpCalls = 1 /\ sinkCalls = 1 /\ connects = 1
    /\ saved = "False"
    /\ table = <<>>

\* C10: save_to_db opens the connection inside the call and has closed it
\* when it returns; it returns True only with the one row committed, the
\* five values in the column order; on a failure it returns False with the
\* connection closed and no row persisted.
C10_SaveToDb ==
    variant = "client-1" =>
        /\ pc \in {"import", "main", "fetch", "check", "extract", "save"} =>
               conn = "none" /\ saved = "unset"
        /\ conn = "open" => pc \in {"execute", "commit"}
        /\ (pc \in {"finish", "done"} /\ sinkCalls > 0) =>
               conn # "open" /\ saved \in {"True", "False"} /\ txn = <<>>
        /\ saved = "True" =>
               /\ conn = "closed"
               /\ Len(table) = 1
               /\ DOMAIN table[1] = {Columns[i] : i \in 1..5}
               /\ table[1].weather = weather_information.weather
               /\ table[1].description = weather_information.description
               /\ table[1].temperature = weather_information.temperature
               /\ table[1].humidity = weather_information.humidity
               /\ table[1].observed_at = weather_information.date
        /\ saved = "False" => conn \in {"none", "closed"} /\ table = <<>>

C10_Witness ==
    /\ variant = "client-1"
    /\ pc = "done"
    /\ saved = "True"
    /\ data = SamplePayload
    /\ table[1].temperature = PyFloat("15.5")
    /\ table[1].observed_at = PyStr("2023-11-14 23:13:20")

=============================================================================
